---- MODULE Spec2Model ----
(***************************************************************************)
(* A model of nut9.py: the rule table (calculateStates), the run-length    *)
(* Pattern builder (insert / complete), the evolver (read), the parser     *)
(* (toPattern), the classifier (solve) and the batch driver (run).         *)
(*                                                                         *)
(* A text line is a sequence of one-character strings.  A Pattern object   *)
(* is a record [runs, offset, count].  The Python sets `lines` and         *)
(* `patterns` hold integers and tuples; an element is written as a tagged  *)
(* pair so that an integer and a tuple are never equal, as in Python.      *)
(*                                                                         *)
(* Spec runs the whole program with read as one step of solve.  SpecRead   *)
(* runs one call of read statement by statement on an enumerated pattern;  *)
(* `frame` holds the locals of that call.                                  *)
(***************************************************************************)
EXTENDS Integers, Sequences, FiniteSets

VARIABLES present, file, pc, states, idx, pattern, lines, patterns, gen,
          result, output, frame

vars == <<present, file, pc, states, idx, pattern, lines, patterns, gen,
          result, output, frame>>

----------------------------------------------------------------------------
(* Bounds of the model.                                                    *)

MaxLen == 5         \* longest enumerated line of a one-line file
MaxBatchLen == 2    \* longest enumerated line of a several-line file
MaxLines == 2       \* most lines in a file

(* Program constants.                                                      *)

GenerationsOneShort == 100 - 1
Generations == 100  \* for i in range(100)
Windows == 32       \* for i in range(32)

----------------------------------------------------------------------------
(* Input alphabet: '#' filled, '.' blank, 'x' any other character.         *)

Chars == {"#", ".", "x"}

Strings(n) == UNION {[1..k -> Chars] : k \in 0..n}

SeedGlider == <<"#", "#", "#", ".", "#">>
SeedOther == <<"#", "#", "#", ".", "#", ".", ".", ".", ".", "#", "#">>
SeedLong == <<"#", "#", "#", "#", "#", "#", ".", ".", ".", ".", ".", ".", "#">>
SeedLead == <<".", ".", "#", ".", "#", ".", ".">>
SeedGap == <<"#", ".", ".", "#", "#">>

Seeds == {SeedGlider, SeedOther, SeedLong, SeedLead, SeedGap}

RECURSIVE Batches(_)
Batches(n) ==
    IF n = 0 THEN {<<>>}
    ELSE LET shorter == Batches(n - 1)
         IN shorter \cup
            {Append(b, l) : b \in {s \in shorter : Len(s) = n - 1},
                            l \in Strings(MaxBatchLen)}

Files == {<<l>> : l \in Strings(MaxLen) \cup Seeds} \cup Batches(MaxLines)

----------------------------------------------------------------------------
(* calculateStates                                                         *)

format05b(i) == [k \in 1..5 |-> IF (i \div (2 ^ (5 - k))) % 2 = 1 THEN "1" ELSE "0"]

countOnes(binary) == Cardinality({k \in DOMAIN binary : binary[k] = "1"})

(* calculateStates reading the centre at string index 2 counted from one. *)
calculateStatesOneBased ==
    [i \in 0..(Windows - 1) |->
        LET binary == format05b(i)
            filled == countOnes(binary)
        IN IF binary[2] = "0"
           THEN filled = 2 \/ filled = 3
           ELSE filled = 3 \/ filled = 5]

(* calculateStates counting the neighbours one too few.                    *)
calculateStatesOffByOne ==
    [i \in 0..(Windows - 1) |->
        LET binary == format05b(i)
            filled == countOnes(binary)
        IN IF binary[3] = "0"
           THEN filled = 1 \/ filled = 2
           ELSE filled = 2 \/ filled = 4]

calculateStates ==
    [i \in 0..(Windows - 1) |->
        LET binary == format05b(i)
            filled == countOnes(binary)
        IN IF binary[3] = "0"
           THEN filled = 2 \/ filled = 3
           ELSE filled = 3 \/ filled = 5]

----------------------------------------------------------------------------
(* class Pattern                                                           *)

Pattern(offset) == [runs |-> <<>>, offset |-> offset, count |-> 0]

(* insert counting a discarded leading blank into offset.                  *)
insertCountingLead(p, bit, steps) ==
    IF p.runs = <<>> /\ p.count = 0 /\ ~bit
    THEN [p EXCEPT !.offset = p.offset + steps]
    ELSE LET filled == Len(p.runs) % 2 = 0
             q == IF (filled /\ ~bit) \/ (~filled /\ bit)
                  THEN [p EXCEPT !.runs = Append(p.runs, p.count), !.count = 0]
                  ELSE p
         IN [q EXCEPT !.count = q.count + steps]

(* insert closing a run without restarting the counter.                    *)
insertKeepingCount(p, bit, steps) ==
    IF p.runs = <<>> /\ p.count = 0 /\ ~bit
    THEN p
    ELSE LET filled == Len(p.runs) % 2 = 0
             q == IF (filled /\ ~bit) \/ (~filled /\ bit)
                  THEN [p EXCEPT !.runs = Append(p.runs, p.count)]
                  ELSE p
         IN [q EXCEPT !.count = q.count + steps]

insert(p, bit, steps) ==
    IF p.runs = <<>> /\ p.count = 0 /\ ~bit
    THEN p
    ELSE LET filled == Len(p.runs) % 2 = 0
             q == IF (filled /\ ~bit) \/ (~filled /\ bit)
                  THEN [p EXCEPT !.runs = Append(p.runs, p.count), !.count = 0]
                  ELSE p
         IN [q EXCEPT !.count = q.count + steps]

(* complete flushing the counter whatever the kind of the last run.        *)
completeAlways(p) ==
    [p EXCEPT !.runs = Append(p.runs, p.count), !.count = 0]

(* complete flushing the hanging run only when it counted something.       *)
completeSkippingZero(p) ==
    IF Len(p.runs) % 2 = 0 /\ p.count > 0
    THEN [p EXCEPT !.runs = Append(p.runs, p.count), !.count = 0]
    ELSE p

complete(p) ==
    IF Len(p.runs) % 2 = 0
    THEN [p EXCEPT !.runs = Append(p.runs, p.count), !.count = 0]
    ELSE p

----------------------------------------------------------------------------
(* read                                                                    *)

(* shortcut with the all-filled test one bit short (0b10000).              *)
shortcutOneBitShort(bit, buffer) == bit + buffer = 0 \/ bit + buffer = 16

shortcut(bit, buffer) == bit + buffer = 0 \/ bit + buffer = 32

(* scanStep testing "nothing written yet" before the insert, not after.    *)
scanStepEarlyOffset(skip, st, bit, table) ==
    LET b == (st.buffer * 2 + bit) % 32
        steps == IF skip /\ shortcut(bit, b) THEN st.run ELSE 1
        p1 == insert(st.p, table[b], steps)
        p2 == IF st.p.runs = <<>> /\ st.p.count = 0
              THEN [p1 EXCEPT !.offset = p1.offset + steps]
              ELSE p1
    IN [run |-> st.run - steps, buffer |-> b, p |-> p2]

(* One iteration of the inner `while run > 0` loop, on the loop state     *)
(* [run, buffer, p].  `skip` is TRUE in the program; with FALSE the        *)
(* shortcut is never taken.                                                *)
scanStep(skip, st, bit, table) ==
    LET b == (st.buffer * 2 + bit) % 32
        steps == IF skip /\ shortcut(bit, b) THEN st.run ELSE 1
        p1 == insert(st.p, table[b], steps)
        p2 == IF p1.runs = <<>> /\ p1.count = 0
              THEN [p1 EXCEPT !.offset = p1.offset + steps]
              ELSE p1
    IN [run |-> st.run - steps, buffer |-> b, p |-> p2]

(* The inner `while run > 0` loop for one run.                             *)
RECURSIVE scanRun(_, _, _, _)
scanRun(skip, st, bit, table) ==
    IF st.run > 0
    THEN scanRun(skip, scanStep(skip, st, bit, table), bit, table)
    ELSE st

(* The outer `for run in pattern.runs` loop, from run number k on.  The    *)
(* loop state is the record [bit, buffer, p].                              *)
RECURSIVE scanRuns(_, _, _, _, _)
scanRuns(skip, runs, k, st, table) ==
    IF k > Len(runs)
    THEN st
    ELSE LET s == scanRun(skip, [run |-> runs[k], buffer |-> st.buffer, p |-> st.p],
                          st.bit, table)
         IN scanRuns(skip, runs, k + 1,
                     [bit |-> (st.bit + 1) % 2, buffer |-> s.buffer, p |-> s.p],
                     table)

(* drainStep masking one bit too many (0b111110).                          *)
drainStepWideMask(st, table) ==
    LET b == (st.buffer * 2) % 64
    IN [buffer |-> b, p |-> insert(st.p, table[b % 32], 1)]

(* One iteration of the trailing `while buffer > 0` loop, on the record   *)
(* [buffer, p].                                                            *)
drainStep(st, table) ==
    LET b == (st.buffer * 2) % 32
    IN [buffer |-> b, p |-> insert(st.p, table[b], 1)]

(* The trailing `while buffer > 0` loop.                                   *)
RECURSIVE drain(_, _)
drain(st, table) ==
    IF st.buffer > 0
    THEN drain(drainStep(st, table), table)
    ELSE st.p

(* read starting from an all-filled window instead of an all-blank one.    *)
readWithFilledWindow(skip, pat, table) ==
    LET s == scanRuns(skip, pat.runs, 1,
                      [bit |-> 1, buffer |-> 31, p |-> Pattern(pat.offset - 2)],
                      table)
    IN complete(drain([buffer |-> s.buffer, p |-> s.p], table))

readWith(skip, pat, table) ==
    LET s == scanRuns(skip, pat.runs, 1,
                      [bit |-> 1, buffer |-> 0, p |-> Pattern(pat.offset - 2)],
                      table)
    IN complete(drain([buffer |-> s.buffer, p |-> s.p], table))

read(pat, table) == readWith(TRUE, pat, table)

----------------------------------------------------------------------------
(* toPattern                                                               *)

(* toPattern validating a character only once the builder has started.    *)
RECURSIVE toPatternLateCheck(_, _, _)
toPatternLateCheck(input, k, p) ==
    IF k > Len(input)
    THEN [raised |-> FALSE, p |-> complete(p)]
    ELSE IF input[k] # "#" /\ input[k] # "." /\ (p.runs # <<>> \/ p.count # 0)
         THEN [raised |-> TRUE, p |-> p]
         ELSE toPatternLateCheck(input, k + 1, insert(p, input[k] = "#", 1))

RECURSIVE toPatternFrom(_, _, _)
toPatternFrom(input, k, p) ==
    IF k > Len(input)
    THEN [raised |-> FALSE, p |-> complete(p)]
    ELSE IF input[k] # "#" /\ input[k] # "."
         THEN [raised |-> TRUE, p |-> p]
         ELSE toPatternFrom(input, k + 1, insert(p, input[k] = "#", 1))

toPattern(input) == toPatternFrom(input, 1, Pattern(0))

----------------------------------------------------------------------------
(* solve                                                                   *)

IntElem(n) == <<"int", <<n>>>>
TupleElem(t) == <<"tuple", t>>

(* set(t): the set of the ELEMENTS of the tuple t.                         *)
setOf(t) == {IntElem(t[k]) : k \in DOMAIN t}

lineTuple(p) == <<p.offset>> \o p.runs
shapeTuple(p) == <<0>> \o p.runs

(* classify testing the shape before the exact line.                      *)
classifyShapeFirst(p, ls, ps) ==
    IF p.runs[1] = 0 THEN "vanishing"
    ELSE IF TupleElem(shapeTuple(p)) \in ps THEN "gliding"
    ELSE IF TupleElem(lineTuple(p)) \in ls THEN "blinking"
    ELSE "none"

(* classify without the test of the exact line.                            *)
classifyNoLineCheck(p, ls, ps) ==
    IF p.runs[1] = 0 THEN "vanishing"
    ELSE IF TupleElem(shapeTuple(p)) \in ps THEN "gliding"
    ELSE "none"

(* The checks of one loop iteration, in program order; "none" when the     *)
(* iteration falls through to the next one.                                *)
classify(p, ls, ps) ==
    IF p.runs[1] = 0 THEN "vanishing"
    ELSE IF TupleElem(lineTuple(p)) \in ls THEN "blinking"
    ELSE IF TupleElem(shapeTuple(p)) \in ps THEN "gliding"
    ELSE "none"

----------------------------------------------------------------------------
(* run                                                                     *)

Labels == {"vanishing", "blinking", "gliding", "other"}

(* The locals of read when no call is being traced.                        *)
IdleFrame ==
    [pc |-> "idle", k |-> 0, bit |-> 1, buffer |-> 0, run |-> 0,
     p |-> Pattern(0), drained |-> 0]

Init ==
    /\ present \in BOOLEAN
    /\ file \in (IF present THEN Files ELSE {<<>>})
    /\ pc = "open"
    /\ states = <<>>
    /\ idx = 0
    /\ pattern = Pattern(0)
    /\ lines = {}
    /\ patterns = {}
    /\ gen = 0
    /\ result = "none"
    /\ output = <<>>
    /\ frame = IdleFrame

(* open succeeds; the table is computed and the lines are split.           *)
Open ==
    /\ pc = "open" /\ present
    /\ states' = calculateStates
    /\ idx' = 1
    /\ pc' = "line"
    /\ UNCHANGED <<frame, present, file, pattern, lines, patterns, gen, result, output>>

(* open raises FileNotFoundError.                                          *)
NotFound ==
    /\ pc = "open" /\ ~present
    /\ output' = Append(output, "nofile")
    /\ pc' = "done"
    /\ UNCHANGED <<frame, present, file, states, idx, pattern, lines, patterns, gen, result>>

(* toPattern(line) returns; solve builds its two sets.                     *)
Parse ==
    /\ pc = "line" /\ idx <= Len(file)
    /\ LET r == toPattern(file[idx])
       IN /\ ~r.raised
          /\ pattern' = r.p
          /\ lines' = setOf(shapeTuple(r.p))
          /\ patterns' = setOf(shapeTuple(r.p))
    /\ gen' = 0
    /\ pc' = "loop"
    /\ UNCHANGED <<frame, present, file, states, idx, result, output>>

(* toPattern(line) raises ValueError, caught by the bare except of run.    *)
ParseError ==
    /\ pc = "line" /\ idx <= Len(file)
    /\ toPattern(file[idx]).raised
    /\ output' = Append(output, "oops")
    /\ pc' = "done"
    /\ UNCHANGED <<frame, present, file, states, idx, pattern, lines, patterns, gen, result>>

(* One iteration of the loop of solve.                                     *)
Generation ==
    /\ pc = "loop" /\ gen < Generations
    /\ LET next == read(pattern, states)
           r == classify(next, lines, patterns)
       IN /\ pattern' = next
          /\ lines' = IF r \in {"vanishing", "blinking"}
                      THEN lines
                      ELSE lines \cup {TupleElem(lineTuple(next))}
          /\ patterns' = IF r = "none"
                         THEN patterns \cup {TupleElem(shapeTuple(next))}
                         ELSE patterns
          /\ result' = r
          /\ pc' = IF r = "none" THEN "loop" ELSE "print"
    /\ gen' = gen + 1
    /\ UNCHANGED <<frame, present, file, states, idx, output>>

(* The loop of solve is exhausted.                                         *)
LoopExit ==
    /\ pc = "loop" /\ gen = Generations
    /\ result' = "other"
    /\ pc' = "print"
    /\ UNCHANGED <<frame, present, file, states, idx, pattern, lines, patterns, gen, output>>

(* print(solve(...)) and on to the next line.                              *)
PrintLabel ==
    /\ pc = "print"
    /\ output' = Append(output, result)
    /\ idx' = idx + 1
    /\ pc' = "line"
    /\ pattern' = Pattern(0)
    /\ lines' = {}
    /\ patterns' = {}
    /\ gen' = 0
    /\ result' = "none"
    /\ UNCHANGED <<frame, present, file, states>>

(* All lines done: the runtime is printed and the file closed.             *)
Finish ==
    /\ pc = "line" /\ idx > Len(file)
    /\ output' = Append(output, "runtime")
    /\ pc' = "done"
    /\ UNCHANGED <<frame, present, file, states, idx, pattern, lines, patterns, gen, result>>

Next ==
    \/ Open
    \/ NotFound
    \/ Parse
    \/ ParseError
    \/ Generation
    \/ LoopExit
    \/ PrintLabel
    \/ Finish

Spec == Init /\ [][Next]_vars

----------------------------------------------------------------------------
(* Vocabulary of the properties.                                           *)

RECURSIVE popcount(_)
popcount(w) == IF w = 0 THEN 0 ELSE (w % 2) + popcount(w \div 2)

centre(w) == (w \div 4) % 2

tableReady == DOMAIN states # {}

solving == pc \in {"loop", "print"}

justParsed == pc = "loop" /\ gen = 0

hasFilled(s) == \E k \in DOMAIN s : s[k] = "#"

hasInvalid(s) == \E k \in DOMAIN s : s[k] # "#" /\ s[k] # "."

(* Number of characters before the first '#' (all of them when none).      *)
leadingBlanks(s) ==
    Cardinality({k \in DOMAIN s : \A j \in 1..k : s[j] # "#"})

firstFilled(s) == CHOOSE k \in DOMAIN s : s[k] = "#" /\ \A j \in 1..(k - 1) : s[j] # "#"

lastFilled(s) == CHOOSE k \in DOMAIN s : s[k] = "#" /\ \A j \in (k + 1)..Len(s) : s[j] # "#"

trimmed(s) == SubSeq(s, firstFilled(s), lastFilled(s))

(* Length of the maximal run of equal characters at the head of t.         *)
headRun(t) ==
    CHOOSE n \in 1..Len(t) :
        /\ \A k \in 1..n : t[k] = t[1]
        /\ n = Len(t) \/ t[n + 1] # t[1]

RECURSIVE runLengths(_)
runLengths(t) ==
    IF t = <<>> THEN <<>>
    ELSE <<headRun(t)>> \o runLengths(SubSeq(t, headRun(t) + 1, Len(t)))

noFilled(p) == \A k \in DOMAIN p.runs : k % 2 = 1 => p.runs[k] = 0

AbsorbDepth == 3    \* generations looked ahead from an empty line

RECURSIVE readTimes(_, _, _)
readTimes(p, n, table) ==
    IF n = 0 THEN p ELSE readTimes(read(p, table), n - 1, table)

isLabel(e) == e \in Labels

tupleCount(S) == Cardinality({e \in S : e[1] = "tuple"})

----------------------------------------------------------------------------
(* C1: once computed, the table maps every window w in 0..31 to filled     *)
(* exactly when the centre bit (bit 2) is 0 and popcount(w) is 2 or 3, or  *)
(* the centre bit is 1 and popcount(w) is 3 or 5; window 00000 is blank    *)
(* and window 11111 is filled.                                             *)
C1_TableRule ==
    tableReady =>
        /\ DOMAIN states = 0..31
        /\ \A w \in 0..31 :
              states[w] <=> IF centre(w) = 0
                            THEN popcount(w) \in {2, 3}
                            ELSE popcount(w) \in {3, 5}
        /\ ~states[0]
        /\ states[31]

C1_Witness == pc = "line" /\ tableReady /\ states[31] /\ ~states[0] /\ states[3]

(* C2: read with the run-skip shortcut returns the same pattern (runs and  *)
(* offset) as the same scan done one cell at a time.                       *)
C2_SkipEquivalence ==
    solving =>
        LET fast == read(pattern, states)
            slow == readWith(FALSE, pattern, states)
        IN fast.runs = slow.runs /\ fast.offset = slow.offset

(* A line with a filled run and a blank run of 6 or more each: on both     *)
(* the shortcut consumes at least two cells at once.                       *)
C2_Witness ==
    /\ pc = "loop"
    /\ \E k \in DOMAIN pattern.runs : k % 2 = 1 /\ pattern.runs[k] >= 6
    /\ \E k \in DOMAIN pattern.runs : k % 2 = 0 /\ pattern.runs[k] >= 6
    /\ read(pattern, states) = readWith(FALSE, pattern, states)

(* C3 (as claimed): when solve has built its sets, both hold the tuple     *)
(* (0, runs...) of the initial pattern.                                    *)
C3_SeededWithInitialTuple ==
    justParsed =>
        /\ TupleElem(shapeTuple(pattern)) \in lines
        /\ TupleElem(shapeTuple(pattern)) \in patterns

(* C4 (as claimed): the offset of the parsed pattern is the number of      *)
(* blanks before the first '#'.                                            *)
C4_OffsetCountsLeadingBlanks ==
    justParsed => pattern.offset = leadingBlanks(file[idx])

(* C4 (amended): the offset of the pattern returned by toPattern is 0,     *)
(* whatever the number of leading blanks.                                  *)
C4_OffsetZero ==
    justParsed => pattern.offset = 0

C4_Witness ==
    /\ justParsed
    /\ file[idx] = SeedLead
    /\ leadingBlanks(file[idx]) = 2
    /\ pattern.offset = 0

(* C5: for a line with at least one '#', the runs of the parsed pattern    *)
(* are the lengths of the maximal same-kind runs between the first and     *)
(* the last '#', in order.                                                 *)
C5_RunsAreRunLengths ==
    (justParsed /\ hasFilled(file[idx])) =>
        pattern.runs = runLengths(trimmed(file[idx]))

C5_Witness ==
    /\ justParsed
    /\ file[idx] = SeedLead
    /\ pattern.runs = <<1, 1, 1>>

(* C6 (as claimed): when run is over, every line without an invalid        *)
(* character has had its label printed.                                    *)
C6_OtherLinesClassified ==
    (pc = "done" /\ present) =>
        Len(SelectSeq(output, isLabel)) =
            Cardinality({k \in DOMAIN file : ~hasInvalid(file[k])})

(* C7: solve returns after at most 100 calls of read with one of the four  *)
(* labels, and the label is other exactly when 100 generations were        *)
(* evolved and each was non-empty, a new line and a new shape.             *)
C7_Returned ==
    /\ gen <= 100
    /\ pc = "print" =>
          /\ result \in Labels
          /\ result = "other" <=>
                /\ gen = 100
                /\ pattern.runs[1] # 0
                /\ tupleCount(lines) = 100
                /\ tupleCount(patterns) = 100

(* While solve stays in its loop, every step is one more call of read.     *)
C7_Progress == (pc = "loop" /\ pc' = "loop") => gen' = gen + 1

C7_BoundedOther == []C7_Returned /\ [][C7_Progress]_vars

C7_Witness == pc = "print" /\ result = "other" /\ gen = 100

(* C8: in one generation the checks apply in the order empty, exact line,  *)
(* shape: a non-empty line already in `lines` gives blinking, and gliding  *)
(* is given only for a line new to `lines` whose shape is in `patterns`.   *)
C8_Step ==
    (pc = "loop" /\ gen' = gen + 1) =>
        LET line == TupleElem(lineTuple(pattern'))
            shape == TupleElem(shapeTuple(pattern'))
        IN /\ pattern'.runs[1] = 0 => result' = "vanishing"
           /\ (pattern'.runs[1] # 0 /\ line \in lines) =>
                 (result' = "blinking" /\ pc' = "print")
           /\ result' = "gliding" => (line \notin lines /\ shape \in patterns)

C8_CheckOrder == [][C8_Step]_vars

C8_Witness ==
    /\ pc = "print"
    /\ result = "blinking"
    /\ TupleElem(lineTuple(pattern)) \in lines
    /\ TupleElem(shapeTuple(pattern)) \in patterns

(* C9: a line with no filled cells evolves into a line with no filled      *)
(* cells, and so do all its later generations.                             *)
C9_EmptyAbsorbing ==
    (solving /\ noFilled(pattern)) =>
        \A n \in 1..AbsorbDepth : noFilled(readTimes(pattern, n, states))

C9_Witness ==
    /\ pc = "print"
    /\ gen = 1
    /\ ~hasFilled(file[idx])
    /\ noFilled(pattern)
    /\ result = "vanishing"

(* C10: a line with a character other than '#' and '.', wherever it is,    *)
(* makes toPattern raise: solve never runs on it and no label is printed   *)
(* for it.                                                                 *)
C10_InvalidRaises ==
    \A k \in DOMAIN file :
        hasInvalid(file[k]) =>
            /\ idx <= k
            /\ idx = k => pc \in {"line", "done"}
            /\ (idx = k /\ pc = "done") => output[k] = "oops"
            /\ Len(output) <= k

C10_Witness ==
    /\ pc = "done"
    /\ file = << <<"#", "x", ".">> >>
    /\ output = <<"oops">>

----------------------------------------------------------------------------
(* One call of read, statement by statement.  The argument is `pattern`,   *)
(* the table is `states`, the locals are the fields of `frame`: k is the   *)
(* position of the for loop in pattern.runs, p the pattern being built,    *)
(* drained the number of iterations of the trailing loop so far.           *)

MaxCells == 8       \* widest enumerated argument line

Offsets == {-3, 0}  \* enumerated offsets of the argument

(* The runs of every line of 1..MaxCells cells that begins and ends with a *)
(* filled cell, and the runs [0] of the empty line.                        *)
ArgumentRuns ==
    {<<0>>} \cup
    {runLengths(s) : s \in {t \in UNION {[1..n -> {"#", "."}] : n \in 1..MaxCells} :
                                t[1] = "#" /\ t[Len(t)] = "#"}}

InitRead ==
    /\ present = TRUE
    /\ file = <<>>
    /\ pc = "done"
    /\ states = calculateStates
    /\ idx = 0
    /\ pattern \in {[runs |-> r, offset |-> o, count |-> 0] :
                       r \in ArgumentRuns, o \in Offsets}
    /\ lines = {}
    /\ patterns = {}
    /\ gen = 0
    /\ result = "none"
    /\ output = <<>>
    /\ frame = [IdleFrame EXCEPT !.pc = "enter"]

(* bit = 1; buffer = 0; p = Pattern(pattern.offset - 2)                    *)
ReadEnter ==
    /\ frame.pc = "enter"
    /\ frame' = [frame EXCEPT !.pc = "for", !.k = 1, !.bit = 1, !.buffer = 0,
                              !.p = Pattern(pattern.offset - 2)]
    /\ UNCHANGED <<present, file, pc, states, idx, pattern, lines, patterns,
                   gen, result, output>>

(* for run in pattern.runs: the next run is taken.                         *)
ForNext ==
    /\ frame.pc = "for" /\ frame.k <= Len(pattern.runs)
    /\ frame' = [frame EXCEPT !.pc = "while", !.run = pattern.runs[frame.k]]
    /\ UNCHANGED <<present, file, pc, states, idx, pattern, lines, patterns,
                   gen, result, output>>

(* One iteration of `while run > 0`, decrementing the list entry itself    *)
(* instead of the local copy.                                              *)
ScanStepInPlace ==
    /\ frame.pc = "while" /\ frame.run > 0
    /\ LET st == scanStep(TRUE, [run |-> frame.run, buffer |-> frame.buffer,
                                 p |-> frame.p], frame.bit, states)
       IN /\ frame' = [frame EXCEPT !.run = st.run, !.buffer = st.buffer,
                                    !.p = st.p]
          /\ pattern' = [pattern EXCEPT !.runs[frame.k] = st.run]
    /\ UNCHANGED <<present, file, pc, states, idx, lines, patterns,
                   gen, result, output>>

(* One iteration of `while run > 0`.                                       *)
ScanStep ==
    /\ frame.pc = "while" /\ frame.run > 0
    /\ LET st == scanStep(TRUE, [run |-> frame.run, buffer |-> frame.buffer,
                                 p |-> frame.p], frame.bit, states)
       IN frame' = [frame EXCEPT !.run = st.run, !.buffer = st.buffer,
                                 !.p = st.p]
    /\ UNCHANGED <<present, file, pc, states, idx, pattern, lines, patterns,
                   gen, result, output>>

(* The run is consumed: bit = (bit + 1) % 2 and on to the next run.        *)
RunDone ==
    /\ frame.pc = "while" /\ frame.run <= 0
    /\ frame' = [frame EXCEPT !.pc = "for", !.bit = (frame.bit + 1) % 2,
                              !.k = frame.k + 1]
    /\ UNCHANGED <<present, file, pc, states, idx, pattern, lines, patterns,
                   gen, result, output>>

(* The for loop is exhausted.                                              *)
ForDone ==
    /\ frame.pc = "for" /\ frame.k > Len(pattern.runs)
    /\ frame' = [frame EXCEPT !.pc = "drain"]
    /\ UNCHANGED <<present, file, pc, states, idx, pattern, lines, patterns,
                   gen, result, output>>

(* One iteration of `while buffer > 0`.                                    *)
DrainStep ==
    /\ frame.pc = "drain" /\ frame.buffer > 0
    /\ LET st == drainStep([buffer |-> frame.buffer, p |-> frame.p], states)
       IN frame' = [frame EXCEPT !.buffer = st.buffer, !.p = st.p,
                                 !.drained = frame.drained + 1]
    /\ UNCHANGED <<present, file, pc, states, idx, pattern, lines, patterns,
                   gen, result, output>>

(* return p.complete()                                                     *)
ReadReturn ==
    /\ frame.pc = "drain" /\ frame.buffer <= 0
    /\ frame' = [frame EXCEPT !.pc = "done", !.p = complete(frame.p)]
    /\ UNCHANGED <<present, file, pc, states, idx, pattern, lines, patterns,
                   gen, result, output>>

NextRead ==
    \/ ReadEnter
    \/ ForNext
    \/ ScanStep
    \/ RunDone
    \/ ForDone
    \/ DrainStep
    \/ ReadReturn

SpecRead == InitRead /\ [][NextRead]_vars

(* read runs sequentially and never waits: while a statement is left to    *)
(* run, one is run.                                                        *)
FairSpecRead == SpecRead /\ WF_vars(NextRead)

----------------------------------------------------------------------------
(* Vocabulary of the properties of read.                                   *)

returned == frame.pc = "done"

RECURSIVE sumTo(_, _)
sumTo(runs, k) == IF k = 0 THEN 0 ELSE runs[k] + sumTo(runs, k - 1)

(* The positions of the filled cells of the line a pattern stands for.     *)
cells(p) ==
    UNION {{p.offset + sumTo(p.runs, k - 1) + j : j \in 0..(p.runs[k] - 1)} :
              k \in {i \in DOMAIN p.runs : i % 2 = 1}}

around(c, x) == Cardinality({y \in (x - 2)..(x + 2) : y \in c})

lowest(c) == CHOOSE x \in c : \A y \in c : x <= y

highest(c) == CHOOSE x \in c : \A y \in c : y <= x

(* The next generation of the set c of filled cells in a blank field.      *)
nextCells(c) ==
    IF c = {} THEN {}
    ELSE {x \in (lowest(c) - 2)..(highest(c) + 2) :
             IF x \in c THEN around(c, x) \in {3, 5}
                        ELSE around(c, x) \in {2, 3}}

wellFormed(p) ==
    /\ Len(p.runs) % 2 = 1
    /\ p.runs = <<0>> \/ \A k \in DOMAIN p.runs : p.runs[k] >= 1

----------------------------------------------------------------------------
(* C11: read is deterministic and leaves its arguments alone: during a     *)
(* call the argument pattern and the table never change, and calling read  *)
(* again on the same pattern and table when the call has returned gives    *)
(* the same runs and the same offset.                                      *)
C11_Same ==
    returned =>
        LET again == read(pattern, states)
        IN again.runs = frame.p.runs /\ again.offset = frame.p.offset

C11_Frame == frame.pc # "idle" => (pattern' = pattern /\ states' = states)

C11_DeterministicFrame == []C11_Same /\ [][C11_Frame]_vars

C11_Witness ==
    /\ returned
    /\ Len(pattern.runs) >= 3
    /\ frame.p.runs[1] # 0
    /\ read(pattern, states).runs = frame.p.runs

(* C12: a line with exactly one filled cell, with or without blanks around *)
(* it, is classified vanishing in the first evolved generation.            *)
singleCell(s) == ~hasInvalid(s) /\ Cardinality({k \in DOMAIN s : s[k] = "#"}) = 1

C12_SingleCellVanishes ==
    (solving /\ singleCell(file[idx])) =>
        /\ pc = "loop" => gen = 0
        /\ pc = "print" => (result = "vanishing" /\ gen = 1)

C12_Witness ==
    /\ pc = "print"
    /\ file[idx] = <<".", "#", ".">>
    /\ result = "vanishing"
    /\ gen = 1

(* C13: for a non-empty well-formed pattern, read returns the true next    *)
(* generation: the returned runs and offset stand for exactly the cells    *)
(* the rule fills around the line in a blank field, as maximal runs, with  *)
(* offset at the first filled cell, also when that cell is written by the  *)
(* trailing loop.                                                          *)
C13_TrueNextGeneration ==
    (returned /\ pattern.runs # <<0>>) =>
        LET next == nextCells(cells(pattern))
        IN /\ wellFormed(frame.p)
           /\ cells(frame.p) = next
           /\ next # {} => frame.p.offset = lowest(next)

(* "#.#": every output of the main scan is blank and the only filled cell  *)
(* is written by the trailing loop.                                        *)
C13_Witness ==
    /\ returned
    /\ pattern.runs = <<1, 1, 1>>
    /\ frame.drained > 0
    /\ frame.p.runs = <<1>>
    /\ frame.p.offset = pattern.offset + 1

(* C14 (as claimed): a pattern returned by complete has count 0.           *)
C14_CountCleared ==
    solving => pattern.count = 0

(* C15: a pattern returned by toPattern or by read is well-formed: runs    *)
(* has odd length, and runs is [0] or has no entry below 1.                *)
C15_WellFormed ==
    solving => wellFormed(pattern)

C15_Witness ==
    /\ pc = "loop"
    /\ gen >= 1
    /\ Len(pattern.runs) >= 3
    /\ wellFormed(pattern)

(* C16: a pattern returned by read has at least one entry in runs, and its *)
(* first entry is 0 exactly when the evolved line has no filled cell.      *)
C16_VanishingTestDefined ==
    returned =>
        /\ Len(frame.p.runs) >= 1
        /\ frame.p.runs[1] = 0 <=> nextCells(cells(pattern)) = {}

(* A line with filled cells whose next generation has none.                *)
C16_Witness ==
    /\ returned
    /\ pattern.runs = <<1, 4, 1>>
    /\ frame.p.runs = <<0>>

(* C17: when solve returns gliding, some line recorded earlier (the        *)
(* initial pattern or an earlier generation) has the runs of the current   *)
(* line at a different offset, and no line recorded earlier is the current *)
(* line itself.                                                            *)
C17_Step ==
    (pc = "loop" /\ result' = "gliding") =>
        LET recorded == {e[2] : e \in {x \in lines : x[1] = "tuple"}}
                           \cup {lineTuple(toPattern(file[idx]).p)}
            current == lineTuple(pattern')
        IN /\ current \notin recorded
           /\ \E t \in recorded : Tail(t) = Tail(current) /\ t[1] # current[1]

C17_GlidingMoved == [][C17_Step]_vars

C17_Witness ==
    /\ pc = "print"
    /\ result = "gliding"
    /\ file[idx] = SeedGlider
    /\ pattern.runs = <<3, 1, 1>>
    /\ pattern.offset # 0

(* C18: read terminates: every iteration of the main scan consumes at      *)
(* least one cell of the current run, and all that remain when the window  *)
(* is 00000 with a blank coming in or 11111 with a filled one; the         *)
(* trailing loop makes at most 5 iterations and leaves the window 00000.   *)
C18_Step ==
    (frame.pc = "while" /\ frame.run > 0) =>
        /\ frame'.run < frame.run
        /\ frame'.run >= 0
        /\ ((frame.bit = 0 /\ frame'.buffer = 0) \/
            (frame.bit = 1 /\ frame'.buffer = 31)) => frame'.run = 0

C18_Bounded ==
    /\ frame.drained <= 5
    /\ returned => frame.buffer = 0

C18_Terminates == []C18_Bounded /\ [][C18_Step]_vars /\ <>returned

(* A call that skipped cells in the main scan and made all 5 iterations of *)
(* the trailing loop.                                                      *)
C18_Witness ==
    /\ returned
    /\ frame.drained = 5
    /\ \E k \in DOMAIN pattern.runs : pattern.runs[k] >= 6

====
